---------------------------- MODULE Spec2Model ----------------------------
(***************************************************************************)
(* A model of src/src/main.rs: the accept loop of the broker, the decoding *)
(* of the 12-byte request header (Request::from) and the writing of the    *)
(* 8-byte response header.                                                 *)
(*                                                                         *)
(* The program is one thread.  Its position is pc; the peers (clients) and *)
(* the listener are the environment.  A peer connects with the bytes it    *)
(* intends to send (script), delivers them in chunks of any size and may   *)
(* close its end at any time.  read_exact blocks until the bytes it wants  *)
(* have been delivered or the peer has closed; write_all may be rejected   *)
(* once the peer has closed.  Connection attempts queue up at the listener *)
(* whatever the program is doing; a call of accept may fail without taking *)
(* any of them.                                                            *)
(***************************************************************************)
EXTENDS Integers, Sequences, FiniteSets, TLC

(***************************************************************************)
(* Bounds.                                                                 *)
(***************************************************************************)
\* number of incoming connection attempts in a run
NConn == 2

\* number of calls of accept that return Err in a run
MaxAcceptErrors == 2

Conns == 1..NConn

(***************************************************************************)
(* Sample request headers: the bytes on the wire and, next to them, the    *)
(* field values those bytes stand for (worked out by hand from the wire    *)
(* format; the model never reads the four value fields, only the claims    *)
(* do).                                                                    *)
(***************************************************************************)
INT32_MAX == 2147483647
INT32_MIN == (-2147483647) - 1

ExampleHeader ==
    [wire |-> <<0, 0, 0, 8, 0, 18, 0, 4, 0, 0, 0, 7>>,
     message_size |-> 8, request_api_key |-> 18,
     request_api_version |-> 4, correlation_id |-> 7]

\* message_size 0 although two body bytes follow, correlation id 0
ZeroHeader ==
    [wire |-> <<0, 0, 0, 0, 255, 255, 1, 2, 0, 0, 0, 0>>,
     message_size |-> 0, request_api_key |-> 65535,
     request_api_version |-> 258, correlation_id |-> 0]

\* message_size -1, correlation id INT32_MIN
MinHeader ==
    [wire |-> <<255, 255, 255, 255, 128, 0, 0, 128, 128, 0, 0, 0>>,
     message_size |-> -1, request_api_key |-> 32768,
     request_api_version |-> 128, correlation_id |-> INT32_MIN]

\* message_size INT32_MAX (far more than is ever sent), correlation id INT32_MAX
MaxHeader ==
    [wire |-> <<127, 255, 255, 255, 1, 0, 0, 1, 127, 255, 255, 255>>,
     message_size |-> INT32_MAX, request_api_key |-> 256,
     request_api_version |-> 1, correlation_id |-> INT32_MAX]

\* correlation id -10 = FF FF FF F6
NegHeader ==
    [wire |-> <<0, 0, 0, 12, 0, 3, 0, 9, 255, 255, 255, 246>>,
     message_size |-> 12, request_api_key |-> 3,
     request_api_version |-> 9, correlation_id |-> -10]

SampleHeaders == {ExampleHeader, ZeroHeader, MinHeader, MaxHeader, NegHeader}

\* what a peer may intend to send on one connection
Scripts ==
    { ExampleHeader.wire,                       \* one request, nothing else
      ZeroHeader.wire \o <<9, 9>>,              \* one request and a body
      MinHeader.wire \o NegHeader.wire,         \* two requests
      MaxHeader.wire }

HEADER_LEN == 12

VARIABLES
    pc,                   \* position of the main thread
    cur,                  \* the connection `stream` is bound to (0: none)
    backlog,              \* listener.incoming(): connection attempts not yet yielded
    cstate,               \* per connection: state of the connection handler
    peer,                 \* per connection: "idle", "open", "closed", "disconnected"
    script,               \* per connection: the bytes the peer intends to send
    delivered,            \* per connection: bytes of script that reached the server
    nread,                \* per connection: bytes the program consumed from the stream
    message_size,         \* local of Request::from (<<>>: not yet bound)
    request_api_key,      \* local of Request::from
    request_api_version,  \* local of Request::from
    failed_field,         \* which read_exact of Request::from returned Err (0: none)
    request,              \* local of main: the decoded request (<<>>: not bound)
    response,             \* local of main
    size_bytes,           \* local of main
    correlation_bytes,    \* local of main
    written,              \* per connection: bytes the program wrote to the stream
    flushed,              \* per connection: flush() was called after the writes
    decoded,              \* per connection: the headers Request::from returned
    outcome,              \* per connection: how the handling ended
    errors,               \* per connection: the error! line logged for it
    accept_errors         \* the error! lines logged for Err(e) of incoming()

vars == <<pc, cur, backlog, cstate, peer, script, delivered, nread, message_size,
          request_api_key, request_api_version, failed_field, request, response,
          size_bytes, correlation_bytes, written, flushed, decoded, outcome, errors,
          accept_errors>>

envvars == <<backlog, peer, script, delivered>>
locals == <<message_size, request_api_key, request_api_version, failed_field,
            request, response, size_bytes, correlation_bytes>>
history == <<written, flushed, decoded, outcome, errors, accept_errors>>


(***************************************************************************)
(* The integer conversions of the standard library, on bytes 0..255.       *)
(***************************************************************************)
\* a variant of i32_from_be_bytes: the last byte is the most significant
\* one (from_le_bytes)
i32_from_le_bytes(b) ==
    (IF b[4] >= 128 THEN b[4] - 256 ELSE b[4]) * 16777216
        + b[3] * 65536 + b[2] * 256 + b[1]

\* i32::from_be_bytes: the first byte is the most significant one and
\* carries the sign (two's complement)
i32_from_be_bytes(b) ==
    (IF b[1] >= 128 THEN b[1] - 256 ELSE b[1]) * 16777216
        + b[2] * 65536 + b[3] * 256 + b[4]

\* u16::from_be_bytes
u16_from_be_bytes(b) == b[1] * 256 + b[2]

\* a variant of i32_to_be_bytes: least significant byte first (to_le_bytes)
i32_to_le_bytes(x) ==
    <<x % 256, (x \div 256) % 256, (x \div 65536) % 256, (x \div 16777216) % 256>>

\* i32::to_be_bytes: the four bytes of the two's complement representation,
\* most significant first (\div rounds down, % is never negative)
i32_to_be_bytes(x) ==
    <<(x \div 16777216) % 256, (x \div 65536) % 256, (x \div 256) % 256, x % 256>>

(***************************************************************************)
(* The stream of a connection.                                             *)
(***************************************************************************)
\* bytes delivered to the server and not yet consumed by the program
inbuf(c) == SubSeq(script[c], nread[c] + 1, delivered[c])

\* read_exact(&mut buf) returns Ok: Len(buf) bytes are there to be taken
CanFill(c, n) == delivered[c] - nread[c] >= n

\* read_exact(&mut buf) returns Err: the peer closed its end before the
\* buffer could be filled (end of stream, or a reset connection)
ReadFails(c, n) == peer[c] = "closed" /\ ~CanFill(c, n)

\* a variant of read_exact: one call of read, which may fill only the
\* first byte and leave the rest of the buffer as it was
read_exact_Short(buf, avail) == [i \in 1..Len(buf) |-> IF i = 1 THEN avail[i] ELSE buf[i]]

\* the buffer after a read_exact that returned Ok: every byte of it is
\* overwritten with the next bytes of the stream
read_exact(buf, avail) == [i \in 1..Len(buf) |-> avail[i]]

\* write_all returns Err: possible once the peer has closed its end
WriteFails(c) == peer[c] = "closed"

\* Request::builder()...build(): client_id is not set (None), tag_buffer
\* takes its default (empty)
Request(ms, key, version, cid) ==
    [message_size |-> ms, request_api_key |-> key,
     request_api_version |-> version, correlation_id |-> cid,
     client_id |-> "None", tag_buffer |-> <<>>]

\* a variant of Response: the wrong field of the request is echoed
Response_EchoesSize(req) == [message_size |-> 0, correlation_id |-> req.message_size]

\* a variant of Response: message_size is taken over from the request
Response_KeepsSize(req) ==
    [message_size |-> req.message_size, correlation_id |-> req.correlation_id]

\* the response main builds for a request
Response(req) == [message_size |-> 0, correlation_id |-> req.correlation_id]

TypeOK ==
    /\ pc \in {"accept", "read_size", "read_key", "read_version",
               "read_correlation", "parse_failed", "respond", "write_size",
               "write_correlation", "flush", "panicked"}
    /\ cur \in 0..NConn
    /\ cstate \in [Conns -> {"Unconnected", "Pending", "Reset",
                             "AwaitingRequest", "Processing", "Closed"}]
    /\ peer \in [Conns -> {"idle", "open", "closed", "disconnected"}]
    /\ \A c \in Conns : script[c] = <<>> \/ script[c] \in Scripts
    /\ \A c \in Conns : nread[c] <= delivered[c] /\ delivered[c] <= Len(script[c])
    /\ flushed \in [Conns -> BOOLEAN]
    /\ accept_errors \in 0..MaxAcceptErrors

Init ==
    /\ pc = "accept"
    /\ cur = 0
    /\ backlog = <<>>
    /\ cstate = [c \in Conns |-> "Unconnected"]
    /\ peer = [c \in Conns |-> "idle"]
    /\ script = [c \in Conns |-> <<>>]
    /\ delivered = [c \in Conns |-> 0]
    /\ nread = [c \in Conns |-> 0]
    /\ message_size = <<>>
    /\ request_api_key = <<>>
    /\ request_api_version = <<>>
    /\ failed_field = 0
    /\ request = <<>>
    /\ response = <<>>
    /\ size_bytes = <<>>
    /\ correlation_bytes = <<>>
    /\ written = [c \in Conns |-> <<>>]
    /\ flushed = [c \in Conns |-> FALSE]
    /\ decoded = [c \in Conns |-> <<>>]
    /\ outcome = [c \in Conns |-> "none"]
    /\ errors = [c \in Conns |-> <<>>]
    /\ accept_errors = 0

(***************************************************************************)
(* The environment: the listener and the peers.  Connection attempts are   *)
(* numbered in the order they are made; they are queued by the listener    *)
(* whether or not the program is at accept, so any number of them may be   *)
(* pending together.  Nothing reaches a process that has panicked.         *)
(***************************************************************************)
\* connection attempt c has been made
Arrived(c) == cstate[c] # "Unconnected"

\* attempt c is the next to be made
MayArrive(c) ==
    /\ pc # "panicked"
    /\ cstate[c] = "Unconnected"
    /\ IF c = 1 THEN TRUE ELSE Arrived(c - 1)

\* a peer connects, intending to send the bytes s
PeerConnect(c) ==
    /\ MayArrive(c)
    /\ \E s \in Scripts : script' = [script EXCEPT ![c] = s]
    /\ peer' = [peer EXCEPT ![c] = "open"]
    /\ cstate' = [cstate EXCEPT ![c] = "Pending"]
    /\ backlog' = Append(backlog, c)
    /\ UNCHANGED <<pc, cur, delivered, nread, locals, history>>

\* the next k bytes of the peer's script reach the server
PeerSend(c) ==
    /\ pc # "panicked"
    /\ peer[c] = "open"
    /\ \E k \in 1..(Len(script[c]) - delivered[c]) :
           delivered' = [delivered EXCEPT ![c] = @ + k]
    /\ UNCHANGED <<pc, cur, backlog, cstate, peer, script, nread, locals, history>>

\* the peer closes (or resets) its end; what it has not sent is never sent
PeerClose(c) ==
    /\ pc # "panicked"
    /\ peer[c] = "open"
    /\ peer' = [peer EXCEPT ![c] = "closed"]
    /\ UNCHANGED <<pc, cur, backlog, cstate, script, delivered, nread, locals, history>>

(***************************************************************************)
(* The program.                                                            *)
(***************************************************************************)
\* the end of an iteration of `for stream in listener.incoming()`: `stream`
\* and the locals go out of scope, the socket is closed, what it held
\* unread is discarded and the peer is disconnected
Release ==
    /\ cstate' = [cstate EXCEPT ![cur] = "Closed"]
    /\ peer' = [peer EXCEPT ![cur] = "disconnected"]
    /\ script' = [script EXCEPT ![cur] = <<>>]
    /\ delivered' = [delivered EXCEPT ![cur] = 0]
    /\ nread' = [nread EXCEPT ![cur] = 0]
    /\ message_size' = <<>>
    /\ request_api_key' = <<>>
    /\ request_api_version' = <<>>
    /\ failed_field' = 0
    /\ request' = <<>>
    /\ response' = <<>>
    /\ size_bytes' = <<>>
    /\ correlation_bytes' = <<>>
    /\ cur' = 0
    /\ pc' = "accept"

\* a variant of Accept: the next connection is taken while the current one
\* is still waiting for its header
Accept_NoWait ==
    /\ pc \in {"accept", "read_size", "read_key", "read_version", "read_correlation"}
    /\ backlog # <<>>
    /\ cstate[Head(backlog)] = "Pending"
    /\ cur' = Head(backlog)
    /\ backlog' = Tail(backlog)
    /\ cstate' = [cstate EXCEPT ![Head(backlog)] = "AwaitingRequest"]
    /\ pc' = "read_size"
    /\ UNCHANGED <<peer, script, delivered, nread, locals, history>>

\* listener.incoming() yields Ok(stream)
Accept ==
    /\ pc = "accept"
    /\ backlog # <<>>
    /\ cstate[Head(backlog)] = "Pending"
    /\ cur' = Head(backlog)
    /\ backlog' = Tail(backlog)
    /\ cstate' = [cstate EXCEPT ![Head(backlog)] = "AwaitingRequest"]
    /\ pc' = "read_size"
    /\ UNCHANGED <<peer, script, delivered, nread, locals, history>>

\* listener.incoming() yields Err(e): the call of accept failed (no free
\* descriptor, say).  The error is logged and the loop goes on to the next
\* call; no connection attempt is taken from the queue, whether one is
\* pending or not.
AcceptError ==
    /\ pc = "accept"
    /\ accept_errors < MaxAcceptErrors
    /\ accept_errors' = accept_errors + 1
    /\ UNCHANGED <<pc, cur, envvars, cstate, nread, locals,
                   written, flushed, decoded, outcome, errors>>

\* a read_exact of Request::from returned Err: `?` returns the error from
\* Request::from at once; the bytes that had arrived are consumed
ReadError(field) ==
    /\ nread' = [nread EXCEPT ![cur] = delivered[cur]]
    /\ failed_field' = field
    /\ pc' = "parse_failed"

\* Request::from, "Read the message size (4 bytes)"
ReadMessageSize ==
    /\ pc = "read_size"
    /\ \/ /\ CanFill(cur, 4)
          /\ LET buf == read_exact(<<0, 0, 0, 0>>, inbuf(cur))
             IN  message_size' = <<i32_from_be_bytes(buf)>>
          /\ nread' = [nread EXCEPT ![cur] = @ + 4]
          /\ pc' = "read_key"
          /\ UNCHANGED failed_field
       \/ /\ ReadFails(cur, 4)
          /\ ReadError(1)
          /\ UNCHANGED message_size
    /\ UNCHANGED <<cur, envvars, cstate, request_api_key, request_api_version,
                   request, response, size_bytes, correlation_bytes, history>>

\* a variant of ReadRequestApiKey: the result of read_exact is dropped
\* instead of returned with `?`, so on Err decoding goes on with the buffer
\* as it is
ReadRequestApiKey_IgnoresError ==
    /\ pc = "read_key"
    /\ \/ /\ CanFill(cur, 2)
          /\ LET buf == read_exact(<<0, 2>>, inbuf(cur))
             IN  request_api_key' = <<u16_from_be_bytes(buf)>>
          /\ nread' = [nread EXCEPT ![cur] = @ + 2]
       \/ /\ ReadFails(cur, 2)
          /\ request_api_key' = <<u16_from_be_bytes(<<0, 2>>)>>
          /\ nread' = [nread EXCEPT ![cur] = delivered[cur]]
    /\ pc' = "read_version"
    /\ UNCHANGED <<cur, envvars, cstate, message_size, request_api_version,
                   failed_field, request, response, size_bytes,
                   correlation_bytes, history>>

\* Request::from, "Read the API key (2 bytes)"; the buffer is the array
\* [0u8, 2], the two elements 0 and 2
ReadRequestApiKey ==
    /\ pc = "read_key"
    /\ \/ /\ CanFill(cur, 2)
          /\ LET buf == read_exact(<<0, 2>>, inbuf(cur))
             IN  request_api_key' = <<u16_from_be_bytes(buf)>>
          /\ nread' = [nread EXCEPT ![cur] = @ + 2]
          /\ pc' = "read_version"
          /\ UNCHANGED failed_field
       \/ /\ ReadFails(cur, 2)
          /\ ReadError(2)
          /\ UNCHANGED request_api_key
    /\ UNCHANGED <<cur, envvars, cstate, message_size, request_api_version,
                   request, response, size_bytes, correlation_bytes, history>>

\* Request::from, "Read the API version (2 bytes)"
ReadRequestApiVersion ==
    /\ pc = "read_version"
    /\ \/ /\ CanFill(cur, 2)
          /\ LET buf == read_exact(<<0, 0>>, inbuf(cur))
             IN  request_api_version' = <<u16_from_be_bytes(buf)>>
          /\ nread' = [nread EXCEPT ![cur] = @ + 2]
          /\ pc' = "read_correlation"
          /\ UNCHANGED failed_field
       \/ /\ ReadFails(cur, 2)
          /\ ReadError(3)
          /\ UNCHANGED request_api_version
    /\ UNCHANGED <<cur, envvars, cstate, message_size, request_api_key,
                   request, response, size_bytes, correlation_bytes, history>>

\* a variant of ReadCorrelationId: after the header, whatever else has
\* arrived on the stream is consumed too
ReadCorrelationId_ReadsOn ==
    /\ pc = "read_correlation"
    /\ \/ /\ CanFill(cur, 4)
          /\ LET buf == read_exact(<<0, 0, 0, 0>>, inbuf(cur))
                 correlation_id == i32_from_be_bytes(buf)
                 req == Request(message_size[1], request_api_key[1],
                                request_api_version[1], correlation_id)
             IN  /\ request' = <<req>>
                 /\ decoded' = [decoded EXCEPT ![cur] = Append(@, req)]
          /\ nread' = [nread EXCEPT ![cur] = delivered[cur]]
          /\ cstate' = [cstate EXCEPT ![cur] = "Processing"]
          /\ pc' = "respond"
          /\ UNCHANGED failed_field
       \/ /\ ReadFails(cur, 4)
          /\ ReadError(4)
          /\ UNCHANGED <<request, decoded, cstate>>
    /\ UNCHANGED <<cur, envvars, message_size, request_api_key,
                   request_api_version, response, size_bytes, correlation_bytes,
                   written, flushed, outcome, errors, accept_errors>>

\* Request::from, "Read correlation ID (4 bytes)", and the Ok(...) it
\* returns to main, which binds it to `request`
ReadCorrelationId ==
    /\ pc = "read_correlation"
    /\ \/ /\ CanFill(cur, 4)
          /\ LET buf == read_exact(<<0, 0, 0, 0>>, inbuf(cur))
                 correlation_id == i32_from_be_bytes(buf)
                 req == Request(message_size[1], request_api_key[1],
                                request_api_version[1], correlation_id)
             IN  /\ request' = <<req>>
                 /\ decoded' = [decoded EXCEPT ![cur] = Append(@, req)]
          /\ nread' = [nread EXCEPT ![cur] = @ + 4]
          /\ cstate' = [cstate EXCEPT ![cur] = "Processing"]
          /\ pc' = "respond"
          /\ UNCHANGED failed_field
       \/ /\ ReadFails(cur, 4)
          /\ ReadError(4)
          /\ UNCHANGED <<request, decoded, cstate>>
    /\ UNCHANGED <<cur, envvars, message_size, request_api_key,
                   request_api_version, response, size_bytes, correlation_bytes,
                   written, flushed, outcome, errors, accept_errors>>

\* a variant of ParseFailed: the error is logged, but the arm yields a
\* default request instead of ending the iteration with `continue`
ParseFailed_GoesOn ==
    /\ pc = "parse_failed"
    /\ errors' = [errors EXCEPT ![cur] = Append(@, "Could not parse request")]
    /\ outcome' = [outcome EXCEPT ![cur] = "ReadError"]
    /\ request' = <<Request(0, 0, 0, 0)>>
    /\ pc' = "respond"
    /\ UNCHANGED <<cur, envvars, cstate, nread, message_size, request_api_key,
                   request_api_version, failed_field, response, size_bytes,
                   correlation_bytes, written, flushed, decoded, accept_errors>>

\* a variant of ParseFailed: before the iteration ends, a response with
\* correlation id 0 is written to tell the peer of the failure
ParseFailed_RepliesError ==
    /\ pc = "parse_failed"
    /\ errors' = [errors EXCEPT ![cur] = Append(@, "Could not parse request")]
    /\ outcome' = [outcome EXCEPT ![cur] = "ReadError"]
    /\ written' = [written EXCEPT ![cur] = @ \o <<0, 0, 0, 0, 0, 0, 0, 0>>]
    /\ Release
    /\ UNCHANGED <<backlog, flushed, decoded, accept_errors>>

\* a variant of ParseFailed: the error is returned from main with `?`
\* instead of matched, and the process ends
ParseFailed_Propagates ==
    /\ pc = "parse_failed"
    /\ outcome' = [outcome EXCEPT ![cur] = "ReadError"]
    /\ cstate' = [cstate EXCEPT ![cur] = "Closed"]
    /\ pc' = "panicked"
    /\ UNCHANGED <<cur, envvars, nread, locals, written, flushed, decoded, errors,
                   accept_errors>>

\* main, the Err arm of `match Request::from(&mut stream)`: the error is
\* logged and `continue` ends the iteration
ParseFailed ==
    /\ pc = "parse_failed"
    /\ errors' = [errors EXCEPT ![cur] = Append(@, "Could not parse request")]
    /\ outcome' = [outcome EXCEPT ![cur] = "ReadError"]
    /\ Release
    /\ UNCHANGED <<backlog, written, flushed, decoded, accept_errors>>

\* main: the response and its bytes are built from the request
Respond ==
    /\ pc = "respond"
    /\ response' = <<Response(request[1])>>
    /\ size_bytes' = i32_to_be_bytes(Response(request[1]).message_size)
    /\ correlation_bytes' = i32_to_be_bytes(Response(request[1]).correlation_id)
    /\ pc' = "write_size"
    /\ UNCHANGED <<cur, envvars, cstate, nread, message_size, request_api_key,
                   request_api_version, failed_field, request, history>>

\* the connection is gone with the panic: the one `stream` was bound to,
\* or one that was pending at the listener
Unwound(c) == c = cur \/ cstate[c] = "Pending"

\* write_all(..).unwrap() on an Err: the main thread panics.  Unwinding
\* drops the locals of main: `stream` is closed, and so is `listener`,
\* which resets the connections still pending at it.  Then the process
\* ends.
Panic ==
    /\ pc' = "panicked"
    /\ outcome' = [outcome EXCEPT ![cur] = "Panicked"]
    /\ cstate' = [c \in Conns |-> IF c = cur THEN "Closed"
                                  ELSE IF cstate[c] = "Pending" THEN "Reset"
                                  ELSE cstate[c]]
    /\ peer' = [c \in Conns |-> IF Unwound(c) THEN "disconnected" ELSE peer[c]]
    /\ script' = [c \in Conns |-> IF Unwound(c) THEN <<>> ELSE script[c]]
    /\ delivered' = [c \in Conns |-> IF Unwound(c) THEN 0 ELSE delivered[c]]
    /\ nread' = [c \in Conns |-> IF Unwound(c) THEN 0 ELSE nread[c]]
    /\ backlog' = <<>>
    /\ message_size' = <<>>
    /\ request_api_key' = <<>>
    /\ request_api_version' = <<>>
    /\ failed_field' = 0
    /\ request' = <<>>
    /\ response' = <<>>
    /\ size_bytes' = <<>>
    /\ correlation_bytes' = <<>>
    /\ cur' = 0

\* main: stream.write_all(&size_bytes).unwrap()
WriteSize ==
    /\ pc = "write_size"
    /\ \/ /\ written' = [written EXCEPT ![cur] = @ \o size_bytes]
          /\ pc' = "write_correlation"
          /\ UNCHANGED <<cur, envvars, cstate, nread, locals, outcome>>
       \/ /\ WriteFails(cur)
          /\ Panic
          /\ UNCHANGED written
    /\ UNCHANGED <<flushed, decoded, errors, accept_errors>>

\* a variant of WriteCorrelation: the iteration ends after the second write,
\* without the flush
WriteCorrelation_NoFlush ==
    /\ pc = "write_correlation"
    /\ \/ /\ written' = [written EXCEPT ![cur] = @ \o correlation_bytes]
          /\ outcome' = [outcome EXCEPT ![cur] = "Responded"]
          /\ Release
          /\ UNCHANGED backlog
       \/ /\ WriteFails(cur)
          /\ Panic
          /\ UNCHANGED written
    /\ UNCHANGED <<flushed, decoded, errors, accept_errors>>

\* main: stream.write_all(&correlation_bytes).unwrap()
WriteCorrelation ==
    /\ pc = "write_correlation"
    /\ \/ /\ written' = [written EXCEPT ![cur] = @ \o correlation_bytes]
          /\ pc' = "flush"
          /\ UNCHANGED <<cur, envvars, cstate, nread, locals, outcome>>
       \/ /\ WriteFails(cur)
          /\ Panic
          /\ UNCHANGED written
    /\ UNCHANGED <<flushed, decoded, errors, accept_errors>>

\* main: stream.flush(), and the end of the iteration.  flush of a
\* TcpStream does nothing and returns Ok(()), so the `if let Err(e)` arm
\* is never taken.
Flush ==
    /\ pc = "flush"
    /\ flushed' = [flushed EXCEPT ![cur] = TRUE]
    /\ outcome' = [outcome EXCEPT ![cur] = "Responded"]
    /\ Release
    /\ UNCHANGED <<backlog, written, decoded, errors, accept_errors>>

\* the steps of the program
Server ==
    \/ Accept
    \/ AcceptError
    \/ ReadMessageSize
    \/ ReadRequestApiKey
    \/ ReadRequestApiVersion
    \/ ReadCorrelationId
    \/ ParseFailed
    \/ Respond
    \/ WriteSize
    \/ WriteCorrelation
    \/ Flush

Next ==
    \/ \E c \in Conns : PeerConnect(c)
    \/ \E c \in Conns : PeerSend(c)
    \/ \E c \in Conns : PeerClose(c)
    \/ Accept
    \/ AcceptError
    \/ ReadMessageSize
    \/ ReadRequestApiKey
    \/ ReadRequestApiVersion
    \/ ReadCorrelationId
    \/ ParseFailed
    \/ Respond
    \/ WriteSize
    \/ WriteCorrelation
    \/ Flush

Spec == Init /\ [][Next]_vars

\* the main thread is never held up while one of its steps can be taken
\* (accept fails at most MaxAcceptErrors times, so it does not fail for ever)
FairSpec == Spec /\ WF_vars(Server)

\* the main thread is never held up while one of its steps can be taken,
\* and no peer stays connected for ever without sending or closing: it
\* goes on to send what is left of its script, or closes its end
LiveSpec ==
    /\ Spec
    /\ WF_vars(Server)
    /\ \A c \in Conns : WF_vars(PeerSend(c) \/ PeerClose(c))

(***************************************************************************)
(* The program on two connections whose peers have each sent one whole     *)
(* header before the first is accepted and then stay connected.  The       *)
(* headers are all combinations of the field bytes below, so that two      *)
(* requests may agree in correlation_id and differ in everything else.     *)
(***************************************************************************)
SizeChoices == {<<0, 0, 0, 8>>, <<0, 0, 0, 0>>, <<255, 255, 255, 255>>, <<127, 255, 255, 255>>}
KeyChoices == {<<0, 18>>, <<255, 255>>}
VersionChoices == {<<0, 4>>, <<1, 2>>}
CorrelationChoices == {<<0, 0, 0, 7>>, <<128, 0, 0, 0>>, <<255, 255, 255, 246>>}

VariedHeaders ==
    {s \o k \o v \o c : s \in SizeChoices, k \in KeyChoices,
                        v \in VersionChoices, c \in CorrelationChoices}

PairInit ==
    /\ pc = "accept"
    /\ cur = 0
    /\ backlog = <<1, 2>>
    /\ cstate = [c \in Conns |-> IF c <= 2 THEN "Pending" ELSE "Unconnected"]
    /\ peer = [c \in Conns |-> IF c <= 2 THEN "open" ELSE "idle"]
    /\ \E h1, h2 \in VariedHeaders :
          script = [c \in Conns |-> IF c = 1 THEN h1 ELSE IF c = 2 THEN h2 ELSE <<>>]
    /\ delivered = [c \in Conns |-> IF c <= 2 THEN HEADER_LEN ELSE 0]
    /\ nread = [c \in Conns |-> 0]
    /\ message_size = <<>>
    /\ request_api_key = <<>>
    /\ request_api_version = <<>>
    /\ failed_field = 0
    /\ request = <<>>
    /\ response = <<>>
    /\ size_bytes = <<>>
    /\ correlation_bytes = <<>>
    /\ written = [c \in Conns |-> <<>>]
    /\ flushed = [c \in Conns |-> FALSE]
    /\ decoded = [c \in Conns |-> <<>>]
    /\ outcome = [c \in Conns |-> "none"]
    /\ errors = [c \in Conns |-> <<>>]
    /\ accept_errors = 0

PairNext ==
    \/ Accept
    \/ ReadMessageSize
    \/ ReadRequestApiKey
    \/ ReadRequestApiVersion
    \/ ReadCorrelationId
    \/ Respond
    \/ WriteSize
    \/ WriteCorrelation
    \/ Flush

PairSpec == PairInit /\ [][PairNext]_vars

(***************************************************************************)
(* The 32-bit codec on its own: four bytes arrive on connection 1 (they    *)
(* are script[1]), are decoded as the correlation id of a request          *)
(* (i32::from_be_bytes), the correlation id of the response built for it   *)
(* is encoded into correlation_bytes (to_be_bytes), and those bytes are    *)
(* decoded once more, into message_size.                                   *)
(***************************************************************************)
ByteSamples == {0, 10, 127, 128, 255}

CodecInit ==
    /\ pc = "codec_decode"
    /\ cur = 1
    /\ backlog = <<>>
    /\ cstate = [c \in Conns |-> IF c = 1 THEN "AwaitingRequest" ELSE "Unconnected"]
    /\ peer = [c \in Conns |-> IF c = 1 THEN "open" ELSE "idle"]
    /\ \E b1, b2, b3, b4 \in ByteSamples :
          script = [c \in Conns |-> IF c = 1 THEN <<b1, b2, b3, b4>> ELSE <<>>]
    /\ delivered = [c \in Conns |-> IF c = 1 THEN 4 ELSE 0]
    /\ nread = [c \in Conns |-> 0]
    /\ message_size = <<>>
    /\ request_api_key = <<>>
    /\ request_api_version = <<>>
    /\ failed_field = 0
    /\ request = <<>>
    /\ response = <<>>
    /\ size_bytes = <<>>
    /\ correlation_bytes = <<>>
    /\ written = [c \in Conns |-> <<>>]
    /\ flushed = [c \in Conns |-> FALSE]
    /\ decoded = [c \in Conns |-> <<>>]
    /\ outcome = [c \in Conns |-> "none"]
    /\ errors = [c \in Conns |-> <<>>]
    /\ accept_errors = 0

\* Request::from: correlation_id = i32::from_be_bytes(correlation_bytes)
CodecDecode ==
    /\ pc = "codec_decode"
    /\ LET buf == read_exact(<<0, 0, 0, 0>>, inbuf(cur))
       IN  request' = <<Request(0, 0, 0, i32_from_be_bytes(buf))>>
    /\ nread' = [nread EXCEPT ![cur] = @ + 4]
    /\ pc' = "codec_encode"
    /\ UNCHANGED <<cur, envvars, cstate, message_size, request_api_key,
                   request_api_version, failed_field, response, size_bytes,
                   correlation_bytes, history>>

\* main: correlation_bytes = response.correlation_id.to_be_bytes()
CodecEncode ==
    /\ pc = "codec_encode"
    /\ response' = <<Response(request[1])>>
    /\ correlation_bytes' = i32_to_be_bytes(Response(request[1]).correlation_id)
    /\ pc' = "codec_decode_back"
    /\ UNCHANGED <<cur, envvars, cstate, nread, message_size, request_api_key,
                   request_api_version, failed_field, request, size_bytes, history>>

\* i32::from_be_bytes on the bytes to_be_bytes produced
CodecDecodeBack ==
    /\ pc = "codec_decode_back"
    /\ message_size' = <<i32_from_be_bytes(correlation_bytes)>>
    /\ pc' = "codec_done"
    /\ UNCHANGED <<cur, envvars, cstate, nread, request_api_key,
                   request_api_version, failed_field, request, response,
                   size_bytes, correlation_bytes, history>>

CodecNext ==
    \/ CodecDecode
    \/ CodecEncode
    \/ CodecDecodeBack

CodecSpec == CodecInit /\ [][CodecNext]_vars

(***************************************************************************)
(* Properties.                                                             *)
(***************************************************************************)
\* the sample header a connection's peer sent first, while the connection
\* is held by the program
SentHeader(c) == CHOOSE h \in SampleHeaders : h.wire = SubSeq(script[c], 1, HEADER_LEN)

\* the connection has both parts of a response on the wire
ResponseWritten(c) == Len(written[c]) = 8

\* C1: whenever a response has been written on a connection, the four
\* correlation id bytes of the response are the four correlation id bytes of
\* the request header decoded on that connection, and the decoded
\* correlation_id is the signed 32-bit value those bytes stand for; this for
\* every sample value, INT32_MIN, INT32_MAX, zero and negative ones included.
C1_CorrelationIdEchoed ==
    \A c \in Conns :
        ResponseWritten(c) =>
            /\ Len(decoded[c]) = 1
            /\ \E h \in SampleHeaders :
                  /\ decoded[c][1].correlation_id = h.correlation_id
                  /\ SubSeq(written[c], 5, 8) = SubSeq(h.wire, 9, 12)
                  /\ script[c] # <<>> => h = SentHeader(c)

\* C1 witness: a response to the request with correlation id INT32_MIN is
\* on the wire
C1_Witness ==
    \E c \in Conns :
        /\ ResponseWritten(c)
        /\ decoded[c][1].correlation_id = INT32_MIN
        /\ SubSeq(written[c], 5, 8) = <<128, 0, 0, 0>>

\* C2: a response that has been written is exactly 8 bytes, four zero bytes
\* and then the correlation id of the decoded request, most significant
\* byte first; no connection ever carries more than 8 response bytes; and
\* the request 00 00 00 08 00 12 00 04 00 00 00 07 is answered with
\* 00 00 00 00 00 00 00 07.
C2_ResponseShape ==
    \A c \in Conns :
        /\ Len(written[c]) <= 8
        /\ (flushed[c] \/ (cur = c /\ pc = "flush")) =>
              /\ Len(written[c]) = 8
              /\ SubSeq(written[c], 1, 4) = <<0, 0, 0, 0>>
              /\ \E h \in SampleHeaders :
                    /\ decoded[c] = <<Request(h.message_size, h.request_api_key,
                                              h.request_api_version, h.correlation_id)>>
                    /\ SubSeq(written[c], 5, 8) = SubSeq(h.wire, 9, 12)
              /\ decoded[c][1].correlation_id = 7 => written[c] = <<0, 0, 0, 0, 0, 0, 0, 7>>

\* C2 witness: the example request has been answered and the response flushed
C2_Witness ==
    \E c \in Conns :
        /\ flushed[c]
        /\ decoded[c][1] = Request(8, 18, 4, 7)
        /\ written[c] = <<0, 0, 0, 0, 0, 0, 0, 7>>

\* C3 (as claimed): when the handler leaves the flush of a response, it is
\* back in AwaitingRequest on the same connection, about to read the next
\* request header from it.
C3_LoopsBackToAwaitingRequest ==
    [][(pc = "flush" /\ pc' # "flush") =>
          /\ cur' = cur
          /\ pc' = "read_size"
          /\ cstate'[cur] = "AwaitingRequest"]_vars

\* C4 (as claimed): no error of a connection ends the server process.
C4_NoErrorCrashesServer == pc # "panicked"

\* the program holds connection c: it has been accepted and not released
Held(c) == cstate[c] \in {"AwaitingRequest", "Processing"}

\* the first field of the header that n bytes do not fill
\* (1 message_size, 2 request_api_key, 3 request_api_version, 4 correlation_id)
FirstUnfilled(n) == IF n < 4 THEN 1 ELSE IF n < 6 THEN 2 ELSE IF n < 8 THEN 3 ELSE 4

\* C5: a stream that ends with fewer than 12 bytes supplied never yields a
\* header: the connection does not reach Processing and nothing is
\* returned by Request::from; and when Request::from fails, fewer than 12
\* bytes were supplied, the read_exact that failed is the one of the first
\* field those bytes do not fill, the locals of that field and of the later
\* ones are not bound, and no request is bound in main.
C5_ShortReadFails ==
    /\ \A c \in Conns :
          (Held(c) /\ peer[c] = "closed" /\ delivered[c] < HEADER_LEN) =>
              /\ cstate[c] = "AwaitingRequest"
              /\ decoded[c] = <<>>
    /\ \A c \in Conns : outcome[c] = "ReadError" => decoded[c] = <<>>
    /\ pc = "parse_failed" =>
          /\ peer[cur] = "closed"
          /\ delivered[cur] < HEADER_LEN
          /\ nread[cur] = delivered[cur]
          /\ failed_field = FirstUnfilled(delivered[cur])
          /\ failed_field <= 1 => message_size = <<>>
          /\ failed_field <= 2 => request_api_key = <<>>
          /\ failed_field <= 3 => request_api_version = <<>>
          /\ request = <<>>
          /\ decoded[cur] = <<>>

\* C5 witness: the peer closed after 6 bytes and the read of the third
\* field failed
C5_Witness ==
    /\ pc = "parse_failed"
    /\ delivered[cur] = 6
    /\ failed_field = 3
    /\ message_size # <<>>
    /\ request_api_version = <<>>

\* decode failed on connection c
DecodeFailed(c) == (cur = c /\ pc = "parse_failed") \/ outcome[c] = "ReadError"

\* C6: once decode has failed on a connection, no response byte is or will
\* be on it, no further byte is read from it, and the handler's next step
\* on it closes it, after which it stays Closed and is never held again.
C6_FailedDecodeCloses ==
    [][\A c \in Conns :
          DecodeFailed(c) =>
              /\ written[c] = <<>> /\ written'[c] = <<>>
              /\ nread'[c] <= nread[c]
              /\ decoded'[c] = <<>>
              /\ DecodeFailed(c)'
              /\ cstate'[c] = "Closed" \/ (cstate'[c] = cstate[c] /\ pc' = pc)
              /\ cstate[c] = "Closed" => cur' # c]_vars

\* C6 witness: connection 1 was abandoned for a failed decode, it carries
\* no response byte, and the program is handling the next connection
C6_Witness ==
    \E c, d \in Conns :
        /\ outcome[c] = "ReadError"
        /\ cstate[c] = "Closed"
        /\ written[c] = <<>>
        /\ cstate[d] = "Processing"

\* every connection attempt before d has been dealt with
EarlierDone(d) == \A e \in Conns : e < d => cstate[e] = "Closed"

\* C7: when a connection has been abandoned for a ReadError and a later
\* connection, next in line, has its 12-byte header delivered and its peer
\* still there, that connection gets its 8-byte response (unless its peer
\* closes first).
C7_ServesAfterReadFailure ==
    \A d \in 2..NConn :
        (/\ \E c \in 1..(d - 1) : outcome[c] = "ReadError"
         /\ EarlierDone(d)
         /\ cstate[d] = "Pending"
         /\ delivered[d] >= HEADER_LEN
         /\ peer[d] = "open")
        ~> (ResponseWritten(d) \/ peer[d] = "closed")

\* C7 witness: a connection that failed with a ReadError, and a later one
\* that was answered
C7_Witness ==
    \E c, d \in Conns :
        /\ c < d
        /\ outcome[c] = "ReadError"
        /\ outcome[d] = "Responded"
        /\ ResponseWritten(d)

\* C8: from the moment Request::from has returned a header until the
\* connection is released, exactly 12 bytes of the stream have been
\* consumed, whatever message_size says and however many bytes follow.
C8_ConsumesTwelveBytes ==
    \A c \in Conns :
        cstate[c] = "Processing" =>
            /\ nread[c] = HEADER_LEN
            /\ Len(inbuf(c)) = delivered[c] - HEADER_LEN

\* C8 witness: a header whose message_size is 0 has been decoded while two
\* body bytes that arrived with it are still unread
C8_Witness ==
    /\ pc = "respond"
    /\ request[1].message_size = 0
    /\ delivered[cur] = 14
    /\ inbuf(cur) = <<9, 9>>

\* C9: the request Request::from returns has the field values the 12 bytes
\* sent stand for, in wire order and big-endian, client_id None and
\* tag_buffer empty.
C9_DecodeMapsFields ==
    request # <<>> =>
        /\ request[1] = [message_size |-> SentHeader(cur).message_size,
                         request_api_key |-> SentHeader(cur).request_api_key,
                         request_api_version |-> SentHeader(cur).request_api_version,
                         correlation_id |-> SentHeader(cur).correlation_id,
                         client_id |-> "None",
                         tag_buffer |-> <<>>]
        /\ SentHeader(cur).wire = SubSeq(script[cur], 1, HEADER_LEN)

\* C9 witness: the header FF FF FF FF 80 00 00 80 80 00 00 00 has been decoded
C9_Witness ==
    /\ pc = "respond"
    /\ request[1].message_size = -1
    /\ request[1].request_api_key = 32768
    /\ request[1].request_api_version = 128
    /\ request[1].correlation_id = INT32_MIN

\* C10: a connection carries nothing, the 4 message_size bytes, or those
\* and then the 4 correlation id bytes; it is flushed only with all 8
\* written; and while the program holds a connection, every other
\* connection on which a request was decoded has its response written and
\* flushed, and no byte beyond the header of an unanswered request has
\* been read.
C10_WriteFlushThenNext ==
    /\ \A c \in Conns :
          /\ Len(written[c]) \in {0, 4, 8}
          /\ Len(written[c]) >= 4 => SubSeq(written[c], 1, 4) = <<0, 0, 0, 0>>
          /\ (cur = c /\ pc = "write_correlation") => written[c] = <<0, 0, 0, 0>>
          /\ flushed[c] => Len(written[c]) = 8
          /\ nread[c] > HEADER_LEN => flushed[c]
    /\ \A c, d \in Conns :
          (Held(c) /\ d # c /\ decoded[d] # <<>>) =>
              /\ flushed[d]
              /\ Len(written[d]) = 8

\* C10 witness: the first connection's response is written and flushed and
\* the program is reading from the next connection
C10_Witness ==
    \E c, d \in Conns :
        /\ flushed[d]
        /\ Len(written[d]) = 8
        /\ cstate[c] = "AwaitingRequest"
        /\ nread[c] > 0

\* the number of bytes the read_exact the program is at asks for (0: the
\* program is not at a read_exact)
Wanted ==
    IF pc \in {"read_size", "read_correlation"} THEN 4
    ELSE IF pc \in {"read_key", "read_version"} THEN 2
    ELSE 0

\* the program waits in a read_exact on connection c, whose peer has
\* neither sent the bytes asked for nor closed
WaitsOn(c) ==
    /\ cur = c
    /\ Wanted > 0
    /\ peer[c] = "open"
    /\ ~CanFill(c, Wanted)

\* C11: at most one connection is held (AwaitingRequest or Processing) at
\* a time, it is the one the main thread is on, and every connection
\* attempt before it has been dealt with; and while the program waits on a
\* peer that neither completes its header nor closes, the program can take
\* no step at all, so a later connection stays pending however much it
\* has sent.
C11_OneConnectionAtATime ==
    /\ \A c, d \in Conns : (Held(c) /\ Held(d)) => c = d
    /\ \A c \in Conns : Held(c) => (cur = c /\ EarlierDone(c))
    /\ \A c \in Conns :
          WaitsOn(c) =>
              /\ ~ENABLED Server
              /\ \A d \in Conns : d # c => (~Held(d) /\ (d > c => written[d] = <<>>))

\* C11 witness: the program waits for the rest of connection 1's header
\* while connection 2, whose whole header has arrived, is pending
C11_Witness ==
    \E c, d \in Conns :
        /\ WaitsOn(c)
        /\ delivered[c] < HEADER_LEN
        /\ cstate[d] = "Pending"
        /\ delivered[d] >= HEADER_LEN

\* C12: two requests with the same correlation_id get the same response
\* bytes, whatever their message_size, request_api_key and
\* request_api_version are and whichever of them is handled first, after
\* whatever other request.
C12_ResponseDependsOnCorrelationIdOnly ==
    \A c, d \in Conns :
        (/\ ResponseWritten(c)
         /\ ResponseWritten(d)
         /\ decoded[c][1].correlation_id = decoded[d][1].correlation_id)
        => written[c] = written[d]

\* C12 witness: two answered requests with the same correlation_id that
\* differ in message_size (one of them negative), request_api_key and
\* request_api_version
C12_Witness ==
    \E c, d \in Conns :
        /\ flushed[c] /\ flushed[d]
        /\ decoded[c][1].correlation_id = decoded[d][1].correlation_id
        /\ decoded[c][1].message_size = -1
        /\ decoded[d][1].message_size = 8
        /\ decoded[c][1].request_api_key # decoded[d][1].request_api_key
        /\ decoded[c][1].request_api_version # decoded[d][1].request_api_version
        /\ written[c] = written[d]

\* C13: encoding the value decoded from four bytes gives those four bytes
\* back, and decoding the encoding of a value gives that value back; the
\* decoded value is a signed 32-bit integer, negative exactly when the top
\* bit of the first byte is set; 00 00 00 0A decodes to 10 and 10 encodes
\* to 00 00 00 0A.
C13_CodecRoundTrip ==
    /\ request # <<>> =>
          /\ request[1].correlation_id >= INT32_MIN
          /\ request[1].correlation_id <= INT32_MAX
          /\ request[1].correlation_id < 0 <=> script[1][1] >= 128
          /\ script[1] = <<0, 0, 0, 10>> <=> request[1].correlation_id = 10
    /\ pc \in {"codec_decode_back", "codec_done"} =>
          /\ correlation_bytes = script[1]
          /\ response[1].correlation_id = 10 => correlation_bytes = <<0, 0, 0, 10>>
    /\ pc = "codec_done" => message_size[1] = response[1].correlation_id

\* C13 witness: 80 00 00 0A went through decode, encode and decode; the
\* value is negative
C13_Witness ==
    /\ pc = "codec_done"
    /\ script[1] = <<128, 0, 0, 10>>
    /\ request[1].correlation_id = INT32_MIN + 10
    /\ correlation_bytes = <<128, 0, 0, 10>>
    /\ message_size = <<INT32_MIN + 10>>

\* the number of responses of which at least one byte is on connection c
ResponsesStarted(c) == (Len(written[c]) + 7) \div 8

\* C14: on every connection the number of responses started is at most
\* the number of headers Request::from returned on it, and while the
\* program holds a connection that carries a response byte, all 12 bytes
\* of the request's header have been read.
C14_NoResponseBeforeHeader ==
    \A c \in Conns :
        /\ ResponsesStarted(c) <= Len(decoded[c])
        /\ (Held(c) /\ written[c] # <<>>) => nread[c] >= HEADER_LEN
        /\ (Held(c) /\ nread[c] < HEADER_LEN) => written[c] = <<>>

\* C14 witness: the first four bytes of a response are on a connection on
\* which one header has been decoded
C14_Witness ==
    \E c \in Conns :
        /\ Len(written[c]) = 4
        /\ ResponsesStarted(c) = 1
        /\ Len(decoded[c]) = 1
        /\ nread[c] = HEADER_LEN

\* the program is done with connection c: it has released it, at the end
\* of the iteration or by panicking while it held it
FinishedWith(c) == cstate[c] = "Closed" \/ outcome[c] = "Panicked"

\* C15 (as claimed): when the program is done with a connection, after a
\* failed write too, the number of response bytes written to it is a
\* multiple of 8.
C15_AllOrNothing ==
    \A c \in Conns : FinishedWith(c) => Len(written[c]) % 8 = 0

\* C16 (as claimed): every pending connection is eventually accepted and
\* every accepted connection is eventually released (Closed); a connection
\* reset while it was pending has not been accepted.
C16_EveryConnectionReleased ==
    \A c \in Conns :
        /\ cstate[c] = "Pending" ~> (Held(c) \/ cstate[c] = "Closed")
        /\ Held(c) ~> cstate[c] = "Closed"

=============================================================================
